---- MODULE Spec2Model ----
(***************************************************************************)
(* Model of the security monitor's HardwareHart                            *)
(* (security-monitor/src/core/control_data/hardware_hart.rs): the saved    *)
(* non-confidential hart state, the physical CSRs it reads and writes, the *)
(* application of ExposeToHypervisor transformations, trap emulation, trap *)
(* classification and the request extraction methods.                      *)
(*                                                                         *)
(* Status registers (mstatus, hstatus, sstatus) are modelled as the set of *)
(* the indices of their enabled bits; every other register is a natural    *)
(* number. Each CSR is a cell of its own, except sstatus: it is the         *)
(* supervisor-level view of the mstatus CSR, read and written through it.  *)
(***************************************************************************)
EXTENDS Integers, FiniteSets, Sequences, TLC

VARIABLES
    non_confidential_hart_state, \* HardwareHart.non_confidential_hart_state: the saved gprs and CSRs
    previous_mscratch,           \* HardwareHart.previous_mscratch
    CSR,                         \* the physical control and status registers of the hart
    panicked,                    \* TRUE once a panic!() aborted the monitor
    lastOp,                      \* the last method called on the HardwareHart, with its argument
    ret,                         \* the value the last method returned
    budget                       \* the number of method calls the model still explores

vars == <<non_confidential_hart_state, previous_mscratch, CSR, panicked, lastOp, ret, budget>>

----------------------------------------------------------------------------
(* Bounds of the model *)

\* modelled register width in bits (usize is 64 bits wide on the target): the
\* interrupt bit of a cause register is bit XLEN - 1
XLEN == 6
\* the longest sequence of method calls explored from a state of InitSmall
MaxSteps == 4
\* the longest sequence of apply calls explored from a state of InitStatus
MaxApplies == 1
\* the longest sequence of classification and extraction calls explored from a state of InitCalls
MaxCalls == 3

----------------------------------------------------------------------------
(* crate::core::architecture::specification: bit indices and cause codes *)

CSR_MSTATUS_SIE == 1
CSR_MSTATUS_MPIE == 7
CSR_MSTATUS_SPP == 8
CSR_MSTATUS_MPP == 11
CSR_MSTATUS_MPV == 39
CSR_HSTATUS_GVA == 6
CSR_HSTATUS_SPV == 7
CSR_HSTATUS_SPVP == 8
CSR_SSTATUS_SPP == 8
STVEC_MODE_VECTORED == 1
CAUSE_SUPERVISOR_ECALL == 9
CAUSE_VIRTUAL_SUPERVISOR_ECALL == 10
CAUSE_LOAD_GUEST_PAGE_FAULT == 21
CAUSE_STORE_GUEST_PAGE_FAULT == 23
SCAUSE_INTERRUPT_MASK == 2 ^ (XLEN - 1)
\* the SBI extension id of the confidential-computing (ACE) extension
AceExtensionId == 5

\* the bits of each status register the model tracks: the ones apply_trap
\* names, the upper bit of the two-bit MPP field (mstatus[12:11]) and one
\* bit apply_trap never names (mstatus.MIE, hstatus.VSBE); SstatusBits are the
\* tracked bits of mstatus that sstatus shows (SIE and SPP)
MstatusBits == {CSR_MSTATUS_SIE, 3, CSR_MSTATUS_MPIE, CSR_MSTATUS_SPP,
                CSR_MSTATUS_MPP, CSR_MSTATUS_MPP + 1, CSR_MSTATUS_MPV}
HstatusBits == {5, CSR_HSTATUS_GVA, CSR_HSTATUS_SPV, CSR_HSTATUS_SPVP}
SstatusBits == {1, CSR_SSTATUS_SPP}

GeneralPurposeRegister == {"a0", "a1", "a2", "a3", "a4", "a5", "a6", "a7", "t0"}

----------------------------------------------------------------------------
(* crate::core::architecture: bit helpers *)

RECURSIVE BitAnd(_, _)
BitAnd(x, y) ==
    IF x = 0 \/ y = 0 THEN 0
    ELSE (IF x % 2 = 1 /\ y % 2 = 1 THEN 1 ELSE 0) + 2 * BitAnd(x \div 2, y \div 2)

RECURSIVE BitOr(_, _)
BitOr(x, y) ==
    IF x = 0 THEN y
    ELSE IF y = 0 THEN x
    ELSE (IF x % 2 = 1 \/ y % 2 = 1 THEN 1 ELSE 0) + 2 * BitOr(x \div 2, y \div 2)

are_bits_enabled(register_value, mask) == BitAnd(register_value, mask) # 0
enable_bit(register_value, bit_index) == register_value \cup {bit_index}
disable_bit(register_value, bit_index) == register_value \ {bit_index}
is_bit_enabled(register_value, bit_index) == bit_index \in register_value

set_gpr(state, register, value) == [state EXCEPT !.gprs[register] = value]
gpr(state, register) == state.gprs[register]

\* CSR.sstatus: the bits of the mstatus CSR that the supervisor level sees;
\* c is the record of the CSRs
CSR_sstatus_read(c) == c.mstatus \cap SstatusBits

CSR_sstatus_read_and_set_bit(c, bit_index) ==
    IF bit_index \in SstatusBits
    THEN [c EXCEPT !.mstatus = enable_bit(c.mstatus, bit_index)]
    ELSE c

----------------------------------------------------------------------------
(* impl HardwareHart: transformation application.                           *)
(* A machine state m is [s |-> the saved non-confidential hart state,       *)
(* c |-> the CSRs]; every apply_* returns [m |-> the machine state it       *)
(* leaves, panic |-> whether it aborted].                                   *)

\* apply_trap with hstatus written as a whole instead of bit by bit
apply_trap_overwriting_hstatus(m, encoded_guest_virtual_address) ==
    IF are_bits_enabled(m.c.stvec, STVEC_MODE_VECTORED)
    THEN [m |-> m, panic |-> TRUE]
    ELSE [m |-> [s |-> [m.s EXCEPT
                          !.mstatus = (m.s.mstatus \ {CSR_MSTATUS_MPV, CSR_MSTATUS_MPIE,
                                                      CSR_MSTATUS_SIE})
                                      \cup {CSR_MSTATUS_MPP, CSR_MSTATUS_SPP},
                          !.mepc = m.c.stvec],
                c |-> [m.c EXCEPT
                          !.sepc = m.s.mepc,
                          !.hstatus = {CSR_HSTATUS_SPV, CSR_HSTATUS_SPVP} \cup
                                      (IF encoded_guest_virtual_address
                                       THEN {CSR_HSTATUS_GVA} ELSE {}),
                          !.mstatus = m.c.mstatus \cup {CSR_SSTATUS_SPP}]],
          panic |-> FALSE]

\* apply_trap with the saved mepc replaced before it is copied to sepc
apply_trap_mepc_first(m, encoded_guest_virtual_address) ==
    IF are_bits_enabled(m.c.stvec, STVEC_MODE_VECTORED)
    THEN [m |-> m, panic |-> TRUE]
    ELSE [m |-> [s |-> [m.s EXCEPT
                          !.mstatus = (m.s.mstatus \ {CSR_MSTATUS_MPV, CSR_MSTATUS_MPIE,
                                                      CSR_MSTATUS_SIE})
                                      \cup {CSR_MSTATUS_MPP, CSR_MSTATUS_SPP},
                          !.mepc = m.c.stvec],
                c |-> [m.c EXCEPT
                          !.sepc = m.c.stvec,
                          !.hstatus = IF encoded_guest_virtual_address
                                      THEN m.c.hstatus \cup {CSR_HSTATUS_SPV, CSR_HSTATUS_SPVP,
                                                             CSR_HSTATUS_GVA}
                                      ELSE (m.c.hstatus \cup {CSR_HSTATUS_SPV, CSR_HSTATUS_SPVP})
                                           \ {CSR_HSTATUS_GVA},
                          !.mstatus = m.c.mstatus \cup {CSR_SSTATUS_SPP}]],
          panic |-> FALSE]

\* apply_trap that sets hstatus.GVA but never clears it
apply_trap_sticky_gva(m, encoded_guest_virtual_address) ==
    IF are_bits_enabled(m.c.stvec, STVEC_MODE_VECTORED)
    THEN [m |-> m, panic |-> TRUE]
    ELSE [m |-> [s |-> [m.s EXCEPT
                          !.mstatus = (m.s.mstatus \ {CSR_MSTATUS_MPV, CSR_MSTATUS_MPIE,
                                                      CSR_MSTATUS_SIE})
                                      \cup {CSR_MSTATUS_MPP, CSR_MSTATUS_SPP},
                          !.mepc = m.c.stvec],
                c |-> [m.c EXCEPT
                          !.sepc = m.s.mepc,
                          !.hstatus = IF encoded_guest_virtual_address
                                      THEN m.c.hstatus \cup {CSR_HSTATUS_SPV, CSR_HSTATUS_SPVP,
                                                             CSR_HSTATUS_GVA}
                                      ELSE m.c.hstatus \cup {CSR_HSTATUS_SPV, CSR_HSTATUS_SPVP},
                          !.mstatus = m.c.mstatus \cup {CSR_SSTATUS_SPP}]],
          panic |-> FALSE]

\* apply_trap without the write of sstatus.SPP
apply_trap_without_sstatus(m, encoded_guest_virtual_address) ==
    IF are_bits_enabled(m.c.stvec, STVEC_MODE_VECTORED)
    THEN [m |-> m, panic |-> TRUE]
    ELSE [m |-> [s |-> [m.s EXCEPT
                          !.mstatus = (m.s.mstatus \ {CSR_MSTATUS_MPV, CSR_MSTATUS_MPIE,
                                                      CSR_MSTATUS_SIE})
                                      \cup {CSR_MSTATUS_MPP, CSR_MSTATUS_SPP},
                          !.mepc = m.c.stvec],
                c |-> [m.c EXCEPT
                          !.sepc = m.s.mepc,
                          !.hstatus = IF encoded_guest_virtual_address
                                      THEN m.c.hstatus \cup {CSR_HSTATUS_SPV, CSR_HSTATUS_SPVP,
                                                             CSR_HSTATUS_GVA}
                                      ELSE (m.c.hstatus \cup {CSR_HSTATUS_SPV, CSR_HSTATUS_SPVP})
                                           \ {CSR_HSTATUS_GVA}]],
          panic |-> FALSE]

\* apply_trap that tests for the vectored mode after it set the next mode
apply_trap_check_late(m, encoded_guest_virtual_address) ==
    LET mstatus4 == (m.s.mstatus \ {CSR_MSTATUS_MPV, CSR_MSTATUS_MPIE, CSR_MSTATUS_SIE})
                    \cup {CSR_MSTATUS_MPP}
    IN IF are_bits_enabled(m.c.stvec, STVEC_MODE_VECTORED)
       THEN [m |-> [m EXCEPT !.s.mstatus = mstatus4], panic |-> TRUE]
       ELSE [m |-> [s |-> [m.s EXCEPT !.mstatus = mstatus4 \cup {CSR_MSTATUS_SPP},
                                      !.mepc = m.c.stvec],
                   c |-> [m.c EXCEPT
                             !.sepc = m.s.mepc,
                             !.hstatus = IF encoded_guest_virtual_address
                                         THEN m.c.hstatus \cup {CSR_HSTATUS_SPV, CSR_HSTATUS_SPVP,
                                                                CSR_HSTATUS_GVA}
                                         ELSE (m.c.hstatus \cup {CSR_HSTATUS_SPV, CSR_HSTATUS_SPVP})
                                              \ {CSR_HSTATUS_GVA},
                             !.mstatus = m.c.mstatus \cup {CSR_SSTATUS_SPP}]],
             panic |-> FALSE]

apply_trap(m, encoded_guest_virtual_address) ==
    IF are_bits_enabled(m.c.stvec, STVEC_MODE_VECTORED)
    THEN [m |-> m, panic |-> TRUE]
    ELSE
      LET \* Set next mode to HS
          mstatus1 == disable_bit(m.s.mstatus, CSR_MSTATUS_MPV)
          mstatus2 == enable_bit(mstatus1, CSR_MSTATUS_MPP)
          mstatus3 == disable_bit(mstatus2, CSR_MSTATUS_MPIE)
          mstatus4 == disable_bit(mstatus3, CSR_MSTATUS_SIE)
          \* Resume HS execution at its trap function
          sepc1 == m.s.mepc
          mepc1 == m.c.stvec
          \* the trap is made to look as coming from VS-mode
          mstatus5 == enable_bit(mstatus4, CSR_MSTATUS_SPP)
          hstatus1 == enable_bit(m.c.hstatus, CSR_HSTATUS_SPV)
          hstatus2 == enable_bit(hstatus1, CSR_HSTATUS_SPVP)
          sstatus1 == CSR_sstatus_read_and_set_bit(m.c, CSR_SSTATUS_SPP)
          hstatus3 == IF encoded_guest_virtual_address
                      THEN enable_bit(hstatus2, CSR_HSTATUS_GVA)
                      ELSE disable_bit(hstatus2, CSR_HSTATUS_GVA)
      IN [m |-> [s |-> [m.s EXCEPT !.mstatus = mstatus5, !.mepc = mepc1],
                 c |-> [sstatus1 EXCEPT !.sepc = sepc1, !.hstatus = hstatus3]],
          panic |-> FALSE]

apply_enabled_interrupts(m, result) ==
    [m |-> [m EXCEPT !.c.vsie = result.vsie], panic |-> FALSE]

\* apply_sbi_result that assigns the pc offset to the saved mepc instead of adding it
apply_sbi_result_assigning_mepc(m, result) ==
    LET s1 == set_gpr(m.s, "a0", result.a0)
        s2 == set_gpr(s1, "a1", result.a1)
        s3 == [s2 EXCEPT !.mepc = result.pc_offset]
    IN [m |-> [m EXCEPT !.s = s3], panic |-> FALSE]

apply_sbi_result(m, result) ==
    LET s1 == set_gpr(m.s, "a0", result.a0)
        s2 == set_gpr(s1, "a1", result.a1)
        \* usize addition: it wraps at the register width
        s3 == [s2 EXCEPT !.mepc = (s2.mepc + result.pc_offset) % (2 ^ XLEN)]
    IN [m |-> [m EXCEPT !.s = s3], panic |-> FALSE]

\* apply_opensbi_result that leaves the saved mstatus as it was
apply_opensbi_result_keeping_mstatus(m, result) ==
    LET s2 == [m.s EXCEPT !.mepc = result.trap_regs.mepc]
        s3 == set_gpr(s2, "a0", result.trap_regs.a0)
        s4 == set_gpr(s3, "a1", result.trap_regs.a1)
    IN [m |-> [m EXCEPT !.s = s4], panic |-> FALSE]

apply_opensbi_result(m, result) ==
    LET s1 == [m.s EXCEPT !.mstatus = result.trap_regs.mstatus]
        s2 == [s1 EXCEPT !.mepc = result.trap_regs.mepc]
        s3 == set_gpr(s2, "a0", result.trap_regs.a0)
        s4 == set_gpr(s3, "a1", result.trap_regs.a1)
    IN [m |-> [m EXCEPT !.s = s4], panic |-> FALSE]

\* the writes of apply_sbi_request up to its call of apply_trap
sbi_request_writes(m, request) ==
    LET c1 == [m.c EXCEPT !.scause = CAUSE_VIRTUAL_SUPERVISOR_ECALL]
        s1 == set_gpr(m.s, "a7", request.extension_id)
        s2 == set_gpr(s1, "a6", request.function_id)
        s3 == set_gpr(s2, "a0", request.a0)
        s4 == set_gpr(s3, "a1", request.a1)
        s5 == set_gpr(s4, "a2", request.a2)
        s6 == set_gpr(s5, "a3", request.a3)
        s7 == set_gpr(s6, "a4", request.a4)
        s8 == set_gpr(s7, "a5", request.a5)
    IN [s |-> s8, c |-> c1]

\* apply_sbi_vm_request with the extension and function ids exchanged
apply_sbi_vm_request_swapped_ids(m, request) ==
    LET written == sbi_request_writes(m, request.sbi_request)
        s1 == set_gpr(written.s, "a7", request.sbi_request.function_id)
        s2 == set_gpr(s1, "a6", request.sbi_request.extension_id)
    IN apply_trap([written EXCEPT !.s = s2], FALSE)

apply_sbi_vm_request(m, request) ==
    apply_trap(sbi_request_writes(m, request.sbi_request), FALSE)

apply_sbi_request(m, request) ==
    apply_trap(sbi_request_writes(m, request), FALSE)

\* the writes of apply_mmio_load_request up to its call of apply_trap
mmio_load_request_writes(m, request) ==
    LET c1 == [m.c EXCEPT !.scause = request.code]
        c2 == [c1 EXCEPT !.stval = request.stval]
        c3 == [c2 EXCEPT !.htval = request.htval]
        c4 == [c3 EXCEPT !.vsscratch = request.instruction]
    IN [s |-> m.s, c |-> c4]

apply_mmio_load_request(m, request) ==
    apply_trap(mmio_load_request_writes(m, request), TRUE)

\* the writes of apply_mmio_store_request up to its call of apply_trap
mmio_store_request_writes(m, request) ==
    LET c1 == [m.c EXCEPT !.scause = request.code]
        c2 == [c1 EXCEPT !.stval = request.stval]
        c3 == [c2 EXCEPT !.htval = request.htval]
        s1 == set_gpr(m.s, request.gpr, request.gpr_value)
        c4 == [c3 EXCEPT !.vsscratch = request.instruction]
    IN [s |-> s1, c |-> c4]

\* apply_mmio_store_request that emulates the trap before it writes the request
apply_mmio_store_request_trap_first(m, request) ==
    LET r == apply_trap(m, TRUE)
    IN IF r.panic THEN r
       ELSE [m |-> mmio_store_request_writes(r.m, request), panic |-> FALSE]

apply_mmio_store_request(m, request) ==
    apply_trap(mmio_store_request_writes(m, request), TRUE)

\* the write of apply_interrupt_request up to its call of apply_trap
interrupt_request_writes(m, request) ==
    [m EXCEPT !.c.scause = BitOr(request.code, SCAUSE_INTERRUPT_MASK)]

\* apply_interrupt_request that emulates the trap as one that carries a guest address
apply_interrupt_request_with_address(m, request) ==
    apply_trap(interrupt_request_writes(m, request), TRUE)

apply_interrupt_request(m, request) ==
    apply_trap(interrupt_request_writes(m, request), FALSE)

apply(m, transformation) ==
    CASE transformation.variant = "SbiRequest" -> apply_sbi_request(m, transformation.v)
      [] transformation.variant = "SbiVmRequest" -> apply_sbi_vm_request(m, transformation.v)
      [] transformation.variant = "SbiResult" -> apply_sbi_result(m, transformation.v)
      [] transformation.variant = "OpensbiResult" -> apply_opensbi_result(m, transformation.v)
      [] transformation.variant = "MmioLoadRequest" -> apply_mmio_load_request(m, transformation.v)
      [] transformation.variant = "MmioStoreRequest" -> apply_mmio_store_request(m, transformation.v)
      [] transformation.variant = "InterruptRequest" -> apply_interrupt_request(m, transformation.v)
      [] transformation.variant = "EnabledInterrupts" -> apply_enabled_interrupts(m, transformation.v)

----------------------------------------------------------------------------
(* impl HardwareHart: scratch swap and volatile CSR transfer *)

\* swap_mscratch that writes the CSR and does not keep the value it replaced
swap_mscratch_losing_current(m, previous) ==
    [m |-> [m EXCEPT !.c.mscratch = previous], previous_mscratch |-> previous]

swap_mscratch(m, previous) ==
    LET current_mscratch == m.c.mscratch
    IN [m |-> [m EXCEPT !.c.mscratch = previous], previous_mscratch |-> current_mscratch]

\* the CSRs the full store dumps and the full load restores: every CSR of the
\* hypervisor's context; mscratch is kept in previous_mscratch and mcause is
\* only read by the monitor
FullCsrSet ==
    {"mepc", "mstatus", "scause", "stval", "htval", "vsscratch", "sepc", "stvec",
     "hstatus", "vsie", "vstvec", "vstval", "vsepc", "hvip"}

\* HartArchitecturalState::empty: every register zero
HartArchitecturalState_empty ==
    [f \in {"gprs"} \cup FullCsrSet |->
        IF f = "gprs" THEN [r \in GeneralPurposeRegister |-> 0]
        ELSE IF f \in {"mstatus", "hstatus"} THEN {}
        ELSE 0]

HartArchitecturalState_store_control_status_registers_in_main_memory(m) ==
    [m EXCEPT !.s = [f \in DOMAIN m.s |-> IF f \in FullCsrSet THEN m.c[f] ELSE m.s[f]]]

HartArchitecturalState_load_control_status_registers_from_main_memory(m) ==
    [m EXCEPT !.c = [f \in DOMAIN m.c |-> IF f \in FullCsrSet THEN m.s[f] ELSE m.c[f]]]

\* InjectedInterrupts::new: a snapshot of the interrupts pending injection
InjectedInterrupts_new(m) == [kind |-> "InjectedInterrupts", hvip |-> m.c.hvip]

interrupts_to_inject(m) == InjectedInterrupts_new(m)

store_control_status_registers_in_main_memory(m) ==
    LET stored == HartArchitecturalState_store_control_status_registers_in_main_memory(m)
    IN [m |-> stored, ret |-> interrupts_to_inject(stored)]

\* load_control_status_registers_from_main_memory that exposes the enabled
\* interrupts before it restores the CSRs
load_control_status_registers_from_main_memory_exposing_first(m, enabled_interrupts) ==
    LET exposed == apply(m, [variant |-> "EnabledInterrupts", v |-> enabled_interrupts])
    IN [m |-> HartArchitecturalState_load_control_status_registers_from_main_memory(exposed.m),
        panic |-> exposed.panic]

load_control_status_registers_from_main_memory(m, enabled_interrupts) ==
    LET loaded == HartArchitecturalState_load_control_status_registers_from_main_memory(m)
    IN apply(loaded, [variant |-> "EnabledInterrupts", v |-> enabled_interrupts])

store_volatile_control_status_registers_in_main_memory(m) ==
    [m EXCEPT !.s.mepc = m.c.mepc, !.s.mstatus = m.c.mstatus]

\* load_volatile_control_status_registers_from_main_memory that leaves the mstatus CSR out
load_volatile_control_status_registers_from_main_memory_mepc_only(m) ==
    [m EXCEPT !.c.mepc = m.s.mepc]

load_volatile_control_status_registers_from_main_memory(m) ==
    [m EXCEPT !.c.mepc = m.s.mepc, !.c.mstatus = m.s.mstatus]

----------------------------------------------------------------------------
(* crate::core::architecture::TrapCause: the trap classifier *)

SbiExtension_decode(extension_id, function_id) ==
    IF extension_id = AceExtensionId
    THEN [name |-> "Ace", extension_id |-> extension_id, function_id |-> function_id]
    ELSE [name |-> "Unknown", extension_id |-> extension_id, function_id |-> function_id]

TrapCause_from(cause, extension_id, function_id) ==
    IF are_bits_enabled(cause, SCAUSE_INTERRUPT_MASK)
    THEN [kind |-> "Interrupt", ext |-> [name |-> "none"]]
    ELSE IF cause = CAUSE_SUPERVISOR_ECALL
    THEN [kind |-> "HsEcall", ext |-> SbiExtension_decode(extension_id, function_id)]
    ELSE IF cause = CAUSE_VIRTUAL_SUPERVISOR_ECALL
    THEN [kind |-> "VsEcall", ext |-> SbiExtension_decode(extension_id, function_id)]
    ELSE [kind |-> "Unknown", ext |-> [name |-> "none"]]

----------------------------------------------------------------------------
(* impl HardwareHart: trap classification and request extraction *)

\* restore_original_gprs with the two CSRs exchanged
restore_original_gprs_swapped(m) ==
    LET s1 == set_gpr(m.s, "a7", m.c.vsepc)
        s2 == set_gpr(s1, "a6", m.c.vstval)
    IN [m EXCEPT !.s = s2]

restore_original_gprs(m) ==
    LET s1 == set_gpr(m.s, "a7", m.c.vstval)
        s2 == set_gpr(s1, "a6", m.c.vsepc)
    IN [m EXCEPT !.s = s2]

\* trap_reason that restores a7 and a6 before it classifies the trap
trap_reason_restoring_first(m) ==
    LET restored == restore_original_gprs(m)
        reason == TrapCause_from(m.c.mcause, gpr(restored.s, "a7"), gpr(restored.s, "a6"))
    IN IF reason.kind = "HsEcall" /\ reason.ext.name = "Ace"
       THEN [m |-> restored, ret |-> reason]
       ELSE [m |-> m, ret |-> reason]

\* returns [m |-> the machine state left, ret |-> the TrapCause returned]
\* trap_reason that restores a7 and a6 whatever the classification is
trap_reason_restoring_always(m) ==
    LET reason == TrapCause_from(m.c.mcause, gpr(m.s, "a7"), gpr(m.s, "a6"))
    IN [m |-> restore_original_gprs(m), ret |-> reason]

trap_reason(m) ==
    LET cause == m.c.mcause
        extension_id == gpr(m.s, "a7")
        function_id == gpr(m.s, "a6")
        reason == TrapCause_from(cause, extension_id, function_id)
    IN IF reason.kind = "HsEcall" /\ reason.ext.name = "Ace"
       THEN [m |-> restore_original_gprs(m), ret |-> reason]
       ELSE [m |-> m, ret |-> reason]

\* read_security_monitor_call_arguments with the two CSRs exchanged
read_security_monitor_call_arguments_swapped(m) == <<m.c.vsscratch, m.c.vstvec>>

read_security_monitor_call_arguments(m) == <<m.c.vstvec, m.c.vsscratch>>

ResumeRequest_new(confidential_vm_id, confidential_hart_id) ==
    [kind |-> "ResumeRequest", confidential_vm_id |-> confidential_vm_id,
     confidential_hart_id |-> confidential_hart_id]

TerminateRequest_new(confidential_vm_id) ==
    [kind |-> "TerminateRequest", confidential_vm_id |-> confidential_vm_id]

resume_request(m) ==
    LET args == read_security_monitor_call_arguments(m)
    IN ResumeRequest_new(args[1], args[2])

terminate_request(m) ==
    LET args == read_security_monitor_call_arguments(m)
    IN TerminateRequest_new(args[1])


\* the constructors of the extracted values: each is a snapshot of the saved
\* state it is handed
PromoteToConfidentialVm_new(hart_state) ==
    [kind |-> "PromoteToConfidentialVm", hart_state |-> hart_state]

SbiResult_ecall(hart_state) ==
    [a0 |-> gpr(hart_state, "a0"), a1 |-> gpr(hart_state, "a1"), pc_offset |-> 4]

GuestLoadPageFaultResult_new(hart_state, request) ==
    [kind |-> "GuestLoadPageFaultResult", result_gpr |-> request.result_gpr,
     value |-> gpr(hart_state, request.result_gpr),
     instruction_length |-> request.instruction_length]

SbiRequest_new(extension_id, function_id, a0, a1, a2, a3, a4, a5) ==
    [extension_id |-> extension_id, function_id |-> function_id, a0 |-> a0, a1 |-> a1,
     a2 |-> a2, a3 |-> a3, a4 |-> a4, a5 |-> a5]

SbiVmRequest_from_hart_state(hart_state) ==
    [sbi_request |->
        SbiRequest_new(gpr(hart_state, "a7"), gpr(hart_state, "a6"), gpr(hart_state, "a0"),
                       gpr(hart_state, "a1"), gpr(hart_state, "a2"), gpr(hart_state, "a3"),
                       gpr(hart_state, "a4"), gpr(hart_state, "a5"))]

SharePageResult_new(is_error, hypervisor_page_address) ==
    [kind |-> "SharePageResult", is_error |-> is_error,
     hypervisor_page_address |-> hypervisor_page_address]

OpensbiRequest_new(hart_state) ==
    [kind |-> "OpensbiRequest",
     regs |-> [gprs |-> hart_state.gprs, mepc |-> hart_state.mepc,
               mstatus |-> hart_state.mstatus]]

promote_to_confidential_vm_request(m) == PromoteToConfidentialVm_new(m.s)

hypercall_result(m) == SbiResult_ecall(m.s)

guest_load_page_fault_result(m, request) == GuestLoadPageFaultResult_new(m.s, request)

sbi_vm_request(m) == SbiVmRequest_from_hart_state(m.s)

share_page_result(m) ==
    LET is_error == gpr(m.s, "a0")
        hypervisor_page_address == gpr(m.s, "a1")
    IN SharePageResult_new(is_error, hypervisor_page_address)

opensbi_request(m) == OpensbiRequest_new(m.s)


----------------------------------------------------------------------------
(* crate::core::transformations::SharePageRequest *)

\* PageSize::Size4KiB in bytes
Size4KiB == 4096

\* ConfidentialVmPhysicalAddress::new: wraps the address, it has no failure to report
ConfidentialVmPhysicalAddress_new(address) == [usize |-> address]

\* a guest address is well formed when it is the address of a 4 KiB page
IsPageAligned(address) == address % Size4KiB = 0

SharePageRequest_new(address) ==
    LET confidential_vm_virtual_address == ConfidentialVmPhysicalAddress_new(address)
    IN [ok |-> TRUE,
        value |-> [confidential_vm_virtual_address |-> confidential_vm_virtual_address,
                   page_size |-> Size4KiB]]

confidential_vm_virtual_address(request) == request.confidential_vm_virtual_address

page_size(request) == request.page_size

----------------------------------------------------------------------------
(* The transformations and register values the model explores *)

SbiRequests ==
    {[extension_id |-> 2, function_id |-> 3, a0 |-> 10, a1 |-> 11, a2 |-> 12,
      a3 |-> 13, a4 |-> 14, a5 |-> 15],
     [extension_id |-> AceExtensionId, function_id |-> 0, a0 |-> 0, a1 |-> 0,
      a2 |-> 0, a3 |-> 0, a4 |-> 0, a5 |-> 0]}

SbiVmRequests == {[sbi_request |-> r] : r \in SbiRequests}

SbiResults ==
    {[a0 |-> 0, a1 |-> 7, pc_offset |-> 4], [a0 |-> 6, a1 |-> 0, pc_offset |-> 0]}

OpensbiResults ==
    {[trap_regs |-> [mstatus |-> {CSR_MSTATUS_MPIE, CSR_MSTATUS_MPP, CSR_MSTATUS_MPP + 1},
                     mepc |-> 2 ^ XLEN - 4,
                     a0 |-> 0, a1 |-> 9]]}

MmioLoadRequests ==
    {[code |-> CAUSE_LOAD_GUEST_PAGE_FAULT, stval |-> 20, htval |-> 5, instruction |-> i] :
        i \in {0, 35}}

MmioStoreRequests ==
    {[code |-> CAUSE_STORE_GUEST_PAGE_FAULT, stval |-> 22, htval |-> 6, instruction |-> i,
      gpr |-> g, gpr_value |-> (IF i = 0 THEN 0 ELSE 9)] : i \in {0, 35}, g \in {"a0", "t0"}}

InterruptRequests == {[code |-> c] : c \in {5, 9}}

EnabledInterruptsSet == {[vsie |-> v] : v \in {0, 2}}

GuestLoadPageFaultRequests ==
    {[result_gpr |-> g, instruction_length |-> 4] : g \in {"a0", "t0"}}

\* guest addresses: the first page, an address inside the second page, the third page
GuestAddresses == {0, Size4KiB + 1, 2 * Size4KiB}

ForwardingVariants ==
    {"SbiRequest", "SbiVmRequest", "MmioLoadRequest", "MmioStoreRequest", "InterruptRequest"}

NoArg == [variant |-> "none"]
Unit == [kind |-> "unit"]

\* the CSRs no status-register claim depends on, as they are on entry to the monitor
BaseCSR(mepc, mstatus, stvec, hstatus) ==
    [mepc |-> mepc, mstatus |-> mstatus, mscratch |-> 40, scause |-> 0, stval |-> 0,
     htval |-> 0, vsscratch |-> 2, sepc |-> 0, stvec |-> stvec, hstatus |-> hstatus,
     vsie |-> 0, vstvec |-> 7, vstval |-> AceExtensionId,
     vsepc |-> 3, mcause |-> CAUSE_SUPERVISOR_ECALL, hvip |-> 4]

\* the values of mstatus the hart can hold: MPP is WARL and never reads 0b10
LegalMstatus ==
    {v \in SUBSET MstatusBits : (CSR_MSTATUS_MPP + 1) \in v => CSR_MSTATUS_MPP \in v}

\* the saved state of a hart on entry to the monitor: the GPRs the hypervisor
\* left and the CSRs as the first full store dumped them
StoredState(gprs, csr) ==
    [HartArchitecturalState_store_control_status_registers_in_main_memory(
         [s |-> HartArchitecturalState_empty, c |-> csr]).s EXCEPT !.gprs = gprs]

\* every value of the tracked status bits, under a direct and a vectored stvec
InitStatus ==
    /\ \E mstatus \in LegalMstatus, hstatus \in SUBSET HstatusBits,
          stvec \in {16, 17} :
          /\ non_confidential_hart_state =
                StoredState([r \in GeneralPurposeRegister |-> 1],
                            BaseCSR(8, mstatus, stvec, hstatus))
          /\ CSR = BaseCSR(8, mstatus, stvec, hstatus)
    /\ previous_mscratch = 0
    /\ panicked = FALSE
    /\ lastOp = [op |-> "init", t |-> NoArg]
    /\ ret = Unit
    /\ budget = MaxApplies

\* every value of the registers of the security-monitor call channel
InitCalls ==
    /\ \E a7 \in {AceExtensionId, 2}, a6 \in {1, 3}, vstval \in {AceExtensionId, 4},
          vsepc \in {3, 9}, vstvec \in {7, 8}, vsscratch \in {2, 3},
          mcause \in {CAUSE_SUPERVISOR_ECALL, CAUSE_VIRTUAL_SUPERVISOR_ECALL,
                      BitOr(5, SCAUSE_INTERRUPT_MASK)} :
          LET csr == [BaseCSR(8, {CSR_MSTATUS_MPP}, 16, {}) EXCEPT
                         !.vstval = vstval, !.vsepc = vsepc, !.vstvec = vstvec,
                         !.vsscratch = vsscratch, !.mcause = mcause]
          IN /\ non_confidential_hart_state =
                   StoredState([r \in GeneralPurposeRegister |->
                                   IF r = "a7" THEN a7 ELSE IF r = "a6" THEN a6 ELSE 1], csr)
             /\ CSR = csr
    /\ previous_mscratch = 0
    /\ panicked = FALSE
    /\ lastOp = [op |-> "init", t |-> NoArg]
    /\ ret = Unit
    /\ budget = MaxCalls

\* a direct and a vectored stvec, each with no and with every tracked status bit set
InitSmall ==
    /\ \E stvec \in {16, 17}, all \in BOOLEAN :
          /\ non_confidential_hart_state =
                StoredState([r \in GeneralPurposeRegister |-> 1],
                            BaseCSR(8, IF all THEN MstatusBits ELSE {}, stvec,
                                    IF all THEN HstatusBits ELSE {}))
          /\ CSR = BaseCSR(8, IF all THEN MstatusBits ELSE {}, stvec,
                           IF all THEN HstatusBits ELSE {})
    /\ previous_mscratch = 0
    /\ panicked = FALSE
    /\ lastOp = [op |-> "init", t |-> NoArg]
    /\ ret = Unit
    /\ budget = MaxSteps

Init == InitSmall

Machine == [s |-> non_confidential_hart_state, c |-> CSR]

----------------------------------------------------------------------------
(* Actions: one per public method of HardwareHart *)

\* a call is made while the monitor has not aborted and the exploration budget lasts
Call == ~panicked /\ budget > 0 /\ budget' = budget - 1

Apply(transformation) ==
    /\ Call
    /\ LET r == apply(Machine, transformation)
       IN /\ non_confidential_hart_state' = r.m.s
          /\ CSR' = r.m.c
          /\ panicked' = r.panic
    /\ lastOp' = [op |-> "apply", t |-> transformation]
    /\ ret' = Unit
    /\ UNCHANGED previous_mscratch

ApplySbiRequest == \E v \in SbiRequests : Apply([variant |-> "SbiRequest", v |-> v])
ApplySbiVmRequest == \E v \in SbiVmRequests : Apply([variant |-> "SbiVmRequest", v |-> v])
ApplySbiResult == \E v \in SbiResults : Apply([variant |-> "SbiResult", v |-> v])
ApplyOpensbiResult == \E v \in OpensbiResults : Apply([variant |-> "OpensbiResult", v |-> v])
ApplyMmioLoadRequest == \E v \in MmioLoadRequests : Apply([variant |-> "MmioLoadRequest", v |-> v])
ApplyMmioStoreRequest == \E v \in MmioStoreRequests : Apply([variant |-> "MmioStoreRequest", v |-> v])
ApplyInterruptRequest == \E v \in InterruptRequests : Apply([variant |-> "InterruptRequest", v |-> v])
ApplyEnabledInterrupts == \E v \in EnabledInterruptsSet : Apply([variant |-> "EnabledInterrupts", v |-> v])

SwapMscratch ==
    /\ Call
    /\ LET r == swap_mscratch(Machine, previous_mscratch)
       IN /\ CSR' = r.m.c
          /\ previous_mscratch' = r.previous_mscratch
    /\ lastOp' = [op |-> "swap_mscratch", t |-> NoArg]
    /\ ret' = Unit
    /\ UNCHANGED <<non_confidential_hart_state, panicked>>

StoreControlStatusRegisters ==
    /\ Call
    /\ LET r == store_control_status_registers_in_main_memory(Machine)
       IN /\ non_confidential_hart_state' = r.m.s
          /\ ret' = r.ret
    /\ lastOp' = [op |-> "store_control_status_registers_in_main_memory", t |-> NoArg]
    /\ UNCHANGED <<CSR, previous_mscratch, panicked>>

LoadControlStatusRegisters ==
    /\ Call
    /\ \E enabled_interrupts \in EnabledInterruptsSet :
          /\ LET r == load_control_status_registers_from_main_memory(Machine, enabled_interrupts)
             IN /\ non_confidential_hart_state' = r.m.s
                /\ CSR' = r.m.c
                /\ panicked' = r.panic
          /\ lastOp' = [op |-> "load_control_status_registers_from_main_memory",
                        t |-> [variant |-> "EnabledInterrupts", v |-> enabled_interrupts]]
    /\ ret' = Unit
    /\ UNCHANGED previous_mscratch

StoreVolatile ==
    /\ Call
    /\ non_confidential_hart_state' = store_volatile_control_status_registers_in_main_memory(Machine).s
    /\ lastOp' = [op |-> "store_volatile_control_status_registers_in_main_memory", t |-> NoArg]
    /\ ret' = Unit
    /\ UNCHANGED <<CSR, previous_mscratch, panicked>>

LoadVolatile ==
    /\ Call
    /\ CSR' = load_volatile_control_status_registers_from_main_memory(Machine).c
    /\ lastOp' = [op |-> "load_volatile_control_status_registers_from_main_memory", t |-> NoArg]
    /\ ret' = Unit
    /\ UNCHANGED <<non_confidential_hart_state, previous_mscratch, panicked>>

TrapReason ==
    /\ Call
    /\ LET r == trap_reason(Machine)
       IN /\ non_confidential_hart_state' = r.m.s
          /\ CSR' = r.m.c
          /\ ret' = r.ret
    /\ lastOp' = [op |-> "trap_reason", t |-> NoArg]
    /\ UNCHANGED <<previous_mscratch, panicked>>

RestoreOriginalGprs ==
    /\ Call
    /\ LET m == restore_original_gprs(Machine)
       IN /\ non_confidential_hart_state' = m.s
          /\ CSR' = m.c
    /\ lastOp' = [op |-> "restore_original_gprs", t |-> NoArg]
    /\ ret' = Unit
    /\ UNCHANGED <<previous_mscratch, panicked>>

ResumeRequest ==
    /\ Call
    /\ ret' = resume_request(Machine)
    /\ lastOp' = [op |-> "resume_request", t |-> NoArg]
    /\ UNCHANGED <<non_confidential_hart_state, CSR, previous_mscratch, panicked>>

TerminateRequest ==
    /\ Call
    /\ ret' = terminate_request(Machine)
    /\ lastOp' = [op |-> "terminate_request", t |-> NoArg]
    /\ UNCHANGED <<non_confidential_hart_state, CSR, previous_mscratch, panicked>>

\* an extraction method: it returns a value and writes nothing
Extract(method, value) ==
    /\ Call
    /\ ret' = value
    /\ lastOp' = [op |-> method, t |-> NoArg]
    /\ UNCHANGED <<non_confidential_hart_state, CSR, previous_mscratch, panicked>>

PromoteToConfidentialVmRequest ==
    Extract("promote_to_confidential_vm_request", promote_to_confidential_vm_request(Machine))

HypercallResult == Extract("hypercall_result", hypercall_result(Machine))

GuestLoadPageFaultResult ==
    \E request \in GuestLoadPageFaultRequests :
        Extract("guest_load_page_fault_result", guest_load_page_fault_result(Machine, request))

SbiVmRequestExtract == Extract("sbi_vm_request", sbi_vm_request(Machine))

SharePageResult == Extract("share_page_result", share_page_result(Machine))

OpensbiRequest == Extract("opensbi_request", opensbi_request(Machine))

InterruptsToInject == Extract("interrupts_to_inject", interrupts_to_inject(Machine))

SharePageRequestNew ==
    \E address \in GuestAddresses :
        /\ Call
        /\ ret' = SharePageRequest_new(address)
        /\ lastOp' = [op |-> "SharePageRequest_new", t |-> [variant |-> "address", v |-> address]]
        /\ UNCHANGED <<non_confidential_hart_state, CSR, previous_mscratch, panicked>>

Next ==
    \/ ApplySbiRequest
    \/ ApplySbiVmRequest
    \/ ApplySbiResult
    \/ ApplyOpensbiResult
    \/ ApplyMmioLoadRequest
    \/ ApplyMmioStoreRequest
    \/ ApplyInterruptRequest
    \/ ApplyEnabledInterrupts
    \/ SwapMscratch
    \/ StoreControlStatusRegisters
    \/ LoadControlStatusRegisters
    \/ StoreVolatile
    \/ LoadVolatile
    \/ TrapReason
    \/ RestoreOriginalGprs
    \/ ResumeRequest
    \/ TerminateRequest
    \/ PromoteToConfidentialVmRequest
    \/ HypercallResult
    \/ GuestLoadPageFaultResult
    \/ SbiVmRequestExtract
    \/ SharePageResult
    \/ OpensbiRequest
    \/ InterruptsToInject
    \/ SharePageRequestNew

Spec == Init /\ [][Next]_vars

\* the apply calls alone, from every value of the status registers
NextApply ==
    \/ ApplySbiRequest
    \/ ApplySbiVmRequest
    \/ ApplySbiResult
    \/ ApplyOpensbiResult
    \/ ApplyMmioLoadRequest
    \/ ApplyMmioStoreRequest
    \/ ApplyInterruptRequest
    \/ ApplyEnabledInterrupts

SpecStatus == InitStatus /\ [][NextApply]_vars

\* trap classification and the extraction of security-monitor calls, from every
\* value of the call channel
NextCalls ==
    \/ TrapReason
    \/ RestoreOriginalGprs
    \/ ResumeRequest
    \/ TerminateRequest
    \/ PromoteToConfidentialVmRequest
    \/ HypercallResult
    \/ GuestLoadPageFaultResult
    \/ SbiVmRequestExtract
    \/ SharePageResult
    \/ OpensbiRequest
    \/ InterruptsToInject
    \/ SharePageRequestNew

SpecCalls == InitCalls /\ [][NextCalls]_vars

----------------------------------------------------------------------------
(* Vocabulary of the properties *)

\* the call recorded in op is the apply of a trap-forwarding transformation
IsForwarding(op) == op.op = "apply" /\ op.t.variant \in ForwardingVariants

\* the last call was a forwarding apply and it returned (it did not abort)
Delivered == IsForwarding(lastOp) /\ ~panicked

\* the bits in which two values of a status register differ
ChangedBits(before, after) == (before \ after) \cup (after \ before)

\* mstatus.MPP is the two-bit field mstatus[12:11]; supervisor privilege is 0b01
MppIsSupervisor(mstatus) ==
    CSR_MSTATUS_MPP \in mstatus /\ (CSR_MSTATUS_MPP + 1) \notin mstatus

\* the GPRs each forwarding variant is documented to write
DocumentedGprs(t) ==
    CASE t.variant \in {"SbiRequest", "SbiVmRequest"} ->
            {"a7", "a6", "a0", "a1", "a2", "a3", "a4", "a5"}
      [] t.variant = "MmioStoreRequest" -> {t.v.gpr}
      [] OTHER -> {}

\* the CSRs each forwarding variant is documented to write as a whole
DocumentedCsrs(t) ==
    CASE t.variant \in {"MmioLoadRequest", "MmioStoreRequest"} ->
            {"scause", "stval", "htval", "vsscratch", "sepc"}
      [] OTHER -> {"scause", "sepc"}

\* the machine state on entry to apply_trap, when apply is called in m with t
TrapEntry(m, t) ==
    CASE t.variant = "SbiRequest" -> sbi_request_writes(m, t.v)
      [] t.variant = "SbiVmRequest" -> sbi_request_writes(m, t.v.sbi_request)
      [] t.variant = "MmioLoadRequest" -> mmio_load_request_writes(m, t.v)
      [] t.variant = "MmioStoreRequest" -> mmio_store_request_writes(m, t.v)
      [] t.variant = "InterruptRequest" -> interrupt_request_writes(m, t.v)

----------------------------------------------------------------------------
(* C1: after a trap-forwarding apply under a direct stvec, whatever the     *)
(* saved mstatus was, the saved mstatus has MPV = 0, MPP = supervisor,     *)
(* MPIE = 0, SIE = 0 and SPP = 1.                                          *)
C1_StatusAfterForwarding ==
    Delivered =>
        /\ CSR_MSTATUS_MPV \notin non_confidential_hart_state.mstatus
        /\ MppIsSupervisor(non_confidential_hart_state.mstatus)
        /\ CSR_MSTATUS_MPIE \notin non_confidential_hart_state.mstatus
        /\ CSR_MSTATUS_SIE \notin non_confidential_hart_state.mstatus
        /\ CSR_MSTATUS_SPP \in non_confidential_hart_state.mstatus

(* C2, as stated: a completed forwarding apply changes only the variant's   *)
(* own GPRs and CSRs, the saved mstatus bits MPV, MPP, MPIE, SIE, SPP,      *)
(* sepc, the saved mepc and the hstatus bits SPV, SPVP, GVA; every other    *)
(* GPR, CSR, status bit and HardwareHart field is unchanged.                *)
C2_FrameAsDocumented ==
    [][(IsForwarding(lastOp') /\ ~panicked') =>
        /\ \A r \in GeneralPurposeRegister \ DocumentedGprs(lastOp'.t) :
              non_confidential_hart_state'.gprs[r] = non_confidential_hart_state.gprs[r]
        /\ \A c \in (DOMAIN CSR) \ (DocumentedCsrs(lastOp'.t) \cup {"hstatus"}) :
              CSR'[c] = CSR[c]
        /\ ChangedBits(non_confidential_hart_state.mstatus, non_confidential_hart_state'.mstatus)
              \subseteq {CSR_MSTATUS_MPV, CSR_MSTATUS_MPP, CSR_MSTATUS_MPP + 1,
                         CSR_MSTATUS_MPIE, CSR_MSTATUS_SIE, CSR_MSTATUS_SPP}
        /\ ChangedBits(CSR.hstatus, CSR'.hstatus)
              \subseteq {CSR_HSTATUS_SPV, CSR_HSTATUS_SPVP, CSR_HSTATUS_GVA}
        /\ previous_mscratch' = previous_mscratch
    ]_vars

(* C2, amended: the same frame, with the sstatus bit SPP (bit SPP of the    *)
(* mstatus CSR, which sstatus shows) added to the trap-emulation writes.    *)
C2_FrameWithSstatus ==
    [][(IsForwarding(lastOp') /\ ~panicked') =>
        /\ \A r \in GeneralPurposeRegister \ DocumentedGprs(lastOp'.t) :
              non_confidential_hart_state'.gprs[r] = non_confidential_hart_state.gprs[r]
        /\ \A c \in (DOMAIN CSR) \ (DocumentedCsrs(lastOp'.t) \cup {"hstatus", "mstatus"}) :
              CSR'[c] = CSR[c]
        /\ ChangedBits(non_confidential_hart_state.mstatus, non_confidential_hart_state'.mstatus)
              \subseteq {CSR_MSTATUS_MPV, CSR_MSTATUS_MPP, CSR_MSTATUS_MPP + 1,
                         CSR_MSTATUS_MPIE, CSR_MSTATUS_SIE, CSR_MSTATUS_SPP}
        /\ ChangedBits(CSR.hstatus, CSR'.hstatus)
              \subseteq {CSR_HSTATUS_SPV, CSR_HSTATUS_SPVP, CSR_HSTATUS_GVA}
        /\ ChangedBits(CSR.mstatus, CSR'.mstatus) \subseteq {CSR_SSTATUS_SPP}
        /\ ChangedBits(CSR_sstatus_read(CSR), CSR_sstatus_read(CSR')) \subseteq {CSR_SSTATUS_SPP}
        /\ previous_mscratch' = previous_mscratch
    ]_vars

\* an MMIO store was delivered from a state whose status bits outside the
\* trap-emulation writes were set: they are still set, sstatus.SPP is set, and
\* the store register alone was written
C2_Witness ==
    /\ Delivered
    /\ lastOp.t.variant = "MmioStoreRequest"
    /\ lastOp.t.v.gpr = "t0"
    /\ non_confidential_hart_state.gprs =
          [r \in GeneralPurposeRegister |-> IF r = "t0" THEN 9 ELSE 1]
    /\ 3 \in non_confidential_hart_state.mstatus
    /\ CSR.hstatus = HstatusBits
    /\ CSR_sstatus_read(CSR) = SstatusBits

(* C3: a completed forwarding apply leaves in sepc the value the saved mepc *)
(* held just before the apply, and in the saved mepc the value of stvec;    *)
(* this holds for every apply of a sequence.                                *)
C3_TrapDelivery ==
    [][(IsForwarding(lastOp') /\ ~panicked') =>
        /\ CSR'.sepc = non_confidential_hart_state.mepc
        /\ non_confidential_hart_state'.mepc = CSR.stvec
        /\ CSR'.stvec = CSR.stvec
    ]_vars

\* a forwarding apply was delivered after a result had moved the saved mepc
\* from 8 to 12: sepc holds the resume address, the saved mepc the vector
C3_Witness ==
    /\ Delivered
    /\ CSR.sepc = 12
    /\ non_confidential_hart_state.mepc = 16
    /\ CSR.stvec = 16

(* C4: after a completed forwarding apply hstatus.GVA is 1 exactly when the *)
(* transformation was an MMIO load or store request, whatever GVA earlier   *)
(* applies left.                                                            *)
C4_GvaTracksLatest ==
    Delivered =>
        (CSR_HSTATUS_GVA \in CSR.hstatus
            <=> lastOp.t.variant \in {"MmioLoadRequest", "MmioStoreRequest"})

\* an interrupt request was delivered after an MMIO request (which left its
\* instruction 35 in vsscratch and GVA set): GVA is clear again
C4_Witness ==
    /\ Delivered
    /\ lastOp.t.variant = "InterruptRequest"
    /\ CSR.vsscratch = 35
    /\ CSR.stval \in {20, 22}
    /\ CSR_HSTATUS_GVA \notin CSR.hstatus

(* C5: after a completed forwarding apply the privilege-history bits agree: *)
(* saved mstatus.SPP = 1, hstatus.SPV = 1, hstatus.SPVP = 1 and             *)
(* sstatus.SPP = 1, for every initial mstatus, hstatus and sstatus.         *)
C5_PrivilegeHistoryAgrees ==
    Delivered =>
        /\ CSR_MSTATUS_SPP \in non_confidential_hart_state.mstatus
        /\ CSR_HSTATUS_SPV \in CSR.hstatus
        /\ CSR_HSTATUS_SPVP \in CSR.hstatus
        /\ CSR_SSTATUS_SPP \in CSR_sstatus_read(CSR)
        /\ (CSR_SSTATUS_SPP \in CSR_sstatus_read(CSR)) = (CSR_HSTATUS_SPVP \in CSR.hstatus)

\* a forwarding apply was delivered from a state whose other status bits were
\* set (they are preserved), and the four bits are set
C5_Witness ==
    /\ Delivered
    /\ {3, CSR_MSTATUS_SPP} \subseteq non_confidential_hart_state.mstatus
    /\ {5, CSR_HSTATUS_SPV, CSR_HSTATUS_SPVP} \subseteq CSR.hstatus
    /\ CSR_sstatus_read(CSR) = {1, CSR_SSTATUS_SPP}

(* C6: a forwarding apply under a vectored stvec aborts in apply_trap, and  *)
(* at the abort the state is the one apply_trap was entered with: the saved *)
(* mstatus and mepc, sepc, hstatus and sstatus are untouched.               *)
C6_VectoredAbortsUntouched ==
    [][(IsForwarding(lastOp') /\ are_bits_enabled(CSR.stvec, STVEC_MODE_VECTORED)) =>
        /\ panicked'
        /\ [s |-> non_confidential_hart_state', c |-> CSR'] = TrapEntry(Machine, lastOp'.t)
        /\ non_confidential_hart_state'.mstatus = non_confidential_hart_state.mstatus
        /\ non_confidential_hart_state'.mepc = non_confidential_hart_state.mepc
        /\ CSR'.sepc = CSR.sepc
        /\ CSR'.hstatus = CSR.hstatus
        /\ CSR_sstatus_read(CSR') = CSR_sstatus_read(CSR)
        /\ CSR'.mstatus = CSR.mstatus
        /\ previous_mscratch' = previous_mscratch
    ]_vars

\* the monitor aborted in the apply of an MMIO store request: the request's
\* writes are made, the trap emulation's are not
C6_Witness ==
    /\ panicked
    /\ lastOp.op = "apply"
    /\ lastOp.t.variant = "MmioStoreRequest"
    /\ CSR.scause = CAUSE_STORE_GUEST_PAGE_FAULT
    /\ CSR.sepc = 0
    /\ non_confidential_hart_state.mepc = 8
    /\ {CSR_MSTATUS_MPV, CSR_MSTATUS_SIE} \subseteq non_confidential_hart_state.mstatus
    /\ CSR.hstatus = {}

\* the last call returned the classification "HS-mode ecall of the ACE extension"
ReturnedAceCall(op, value) ==
    op.op = "trap_reason" /\ value.kind = "HsEcall" /\ value.ext.name = "Ace"

(* C7: resume_request reports the confidential-VM id held in vstvec and the *)
(* hart id held in vsscratch; terminate_request reports the id held in      *)
(* vstvec and nothing of vsscratch.                                         *)
C7_CallArgumentsRoundTrip ==
    /\ lastOp.op = "resume_request" =>
          /\ ret.kind = "ResumeRequest"
          /\ ret.confidential_vm_id = CSR.vstvec
          /\ ret.confidential_hart_id = CSR.vsscratch
    /\ lastOp.op = "terminate_request" =>
          ret = [kind |-> "TerminateRequest", confidential_vm_id |-> CSR.vstvec]

\* resume_request returned while the channel held VM id 7 and hart id 2
C7_Witness ==
    /\ lastOp.op = "resume_request"
    /\ CSR.vstvec = 7
    /\ CSR.vsscratch = 2
    /\ ret.confidential_vm_id = 7
    /\ ret.confidential_hart_id = 2

(* C8: restore_original_gprs followed by trap_reason, on an HS-mode ecall   *)
(* whose vstval names the ACE extension, returns the classification with    *)
(* the extension id of vstval and the function id of vsepc, whatever a7 and *)
(* a6 held before, and leaves a7 = vstval and a6 = vsepc.                   *)
C8_RestoreThenClassify ==
    [][(/\ lastOp.op = "restore_original_gprs"
        /\ lastOp'.op = "trap_reason"
        /\ CSR.mcause = CAUSE_SUPERVISOR_ECALL
        /\ CSR.vstval = AceExtensionId) =>
        /\ ReturnedAceCall(lastOp', ret')
        /\ ret'.ext.extension_id = CSR.vstval
        /\ ret'.ext.function_id = CSR.vsepc
        /\ non_confidential_hart_state'.gprs["a7"] = CSR.vstval
        /\ non_confidential_hart_state'.gprs["a6"] = CSR.vsepc
        /\ CSR' = CSR
    ]_vars

\* trap_reason returned an ACE call with function id 9: a6 held 1 or 3 at
\* first, so the id came from vsepc through restore_original_gprs
C8_Witness ==
    /\ ReturnedAceCall(lastOp, ret)
    /\ ret.ext.function_id = 9
    /\ CSR.vsepc = 9
    /\ non_confidential_hart_state.gprs["a6"] = 9

(* C9, as stated: whenever trap_reason returns an HS-mode ecall of the ACE  *)
(* extension, the identifiers in the classification equal vstval and vsepc  *)
(* and agree with a7 and a6 as they are when trap_reason returns.           *)
C9_ClassifiedFromCsrs ==
    ReturnedAceCall(lastOp, ret) =>
        /\ ret.ext.extension_id = CSR.vstval
        /\ ret.ext.function_id = CSR.vsepc
        /\ ret.ext.extension_id = non_confidential_hart_state.gprs["a7"]
        /\ ret.ext.function_id = non_confidential_hart_state.gprs["a6"]

(* C9, amended: whenever trap_reason returns an HS-mode ecall of the ACE    *)
(* extension, the identifiers in the classification are those a7 and a6     *)
(* held when trap_reason was called, and a7 and a6 hold vstval and vsepc    *)
(* when it returns.                                                         *)
C9_ClassifiedThenRestored ==
    [][ReturnedAceCall(lastOp', ret') =>
        /\ ret'.ext.extension_id = non_confidential_hart_state.gprs["a7"]
        /\ ret'.ext.function_id = non_confidential_hart_state.gprs["a6"]
        /\ non_confidential_hart_state'.gprs["a7"] = CSR'.vstval
        /\ non_confidential_hart_state'.gprs["a6"] = CSR'.vsepc
    ]_vars

\* trap_reason returned an ACE call whose function id is not the one a6 now
\* holds: the classification was made before a6 was restored from vsepc
C9_Witness ==
    /\ ReturnedAceCall(lastOp, ret)
    /\ ret.ext.function_id = 1
    /\ non_confidential_hart_state.gprs["a6"] = 9
    /\ non_confidential_hart_state.gprs["a7"] = 4

(* C10: the apply of an MMIO store request, also one with instruction 0 and *)
(* value 0, leaves scause, stval, htval, the request's GPR and vsscratch    *)
(* with the request's values and, when it completes, hstatus.GVA = 1; the   *)
(* writes precede trap emulation: they are made even when apply_trap        *)
(* aborts, with the saved mepc still in place. An MMIO load request does    *)
(* the same and writes no GPR.                                              *)
C10_MmioRequestWrites ==
    [][(lastOp'.op = "apply" /\ lastOp'.t.variant \in {"MmioLoadRequest", "MmioStoreRequest"}) =>
        LET request == lastOp'.t.v
        IN /\ CSR'.scause = request.code
           /\ CSR'.stval = request.stval
           /\ CSR'.htval = request.htval
           /\ CSR'.vsscratch = request.instruction
           /\ IF lastOp'.t.variant = "MmioStoreRequest"
              THEN non_confidential_hart_state'.gprs =
                      [non_confidential_hart_state.gprs EXCEPT ![request.gpr] = request.gpr_value]
              ELSE non_confidential_hart_state'.gprs = non_confidential_hart_state.gprs
           /\ IF panicked'
              THEN /\ non_confidential_hart_state'.mepc = non_confidential_hart_state.mepc
                   /\ CSR'.hstatus = CSR.hstatus
              ELSE /\ CSR_HSTATUS_GVA \in CSR'.hstatus
                   /\ non_confidential_hart_state'.mepc = CSR.stvec
    ]_vars

\* an MMIO store request with instruction 0 and value 0 was delivered: its
\* register and vsscratch, which held 1 and 2, hold 0, and GVA is set
C10_Witness ==
    /\ Delivered
    /\ lastOp.t.variant = "MmioStoreRequest"
    /\ lastOp.t.v.instruction = 0
    /\ lastOp.t.v.gpr_value = 0
    /\ non_confidential_hart_state.gprs[lastOp.t.v.gpr] = 0
    /\ CSR.vsscratch = 0
    /\ CSR.scause = CAUSE_STORE_GUEST_PAGE_FAULT
    /\ CSR_HSTATUS_GVA \in CSR.hstatus
    /\ non_confidential_hart_state.mepc = CSR.stvec


(* C11: the apply of SbiRequest(r) leaves a7 = r's extension id, a6 = r's   *)
(* function id, a0..a5 = r's six arguments, scause = the code of an ecall   *)
(* from VS-mode and, when it completes, hstatus.GVA = 0; the apply of the   *)
(* SbiVmRequest that wraps r, from the same state, leaves the same state.   *)
C11_SbiRequestWrites ==
    [][(lastOp'.op = "apply" /\ lastOp'.t.variant \in {"SbiRequest", "SbiVmRequest"}) =>
        LET r == IF lastOp'.t.variant = "SbiRequest" THEN lastOp'.t.v
                 ELSE lastOp'.t.v.sbi_request
            after == [m |-> [s |-> non_confidential_hart_state', c |-> CSR'],
                      panic |-> panicked']
        IN /\ non_confidential_hart_state'.gprs =
                 [non_confidential_hart_state.gprs EXCEPT
                     !["a7"] = r.extension_id, !["a6"] = r.function_id,
                     !["a0"] = r.a0, !["a1"] = r.a1, !["a2"] = r.a2,
                     !["a3"] = r.a3, !["a4"] = r.a4, !["a5"] = r.a5]
           /\ CSR'.scause = CAUSE_VIRTUAL_SUPERVISOR_ECALL
           /\ ~panicked' => CSR_HSTATUS_GVA \notin CSR'.hstatus
           /\ after = apply(Machine, [variant |-> "SbiRequest", v |-> r])
           /\ after = apply(Machine, [variant |-> "SbiVmRequest", v |-> [sbi_request |-> r]])
    ]_vars

\* an SbiVmRequest wrapping the request with eight distinct values was
\* delivered after an MMIO request had set GVA: the registers hold the values
C11_Witness ==
    /\ Delivered
    /\ lastOp.t.variant = "SbiVmRequest"
    /\ non_confidential_hart_state.gprs =
          [r \in GeneralPurposeRegister |->
              CASE r = "a7" -> 2 [] r = "a6" -> 3 [] r = "a0" -> 10 [] r = "a1" -> 11
                [] r = "a2" -> 12 [] r = "a3" -> 13 [] r = "a4" -> 14 [] r = "a5" -> 15
                [] OTHER -> 1]
    /\ CSR.scause = CAUSE_VIRTUAL_SUPERVISOR_ECALL
    /\ CSR.vsscratch = 35
    /\ CSR_HSTATUS_GVA \notin CSR.hstatus


(* C12: the apply of an SbiResult writes a0 and a1 of the saved state with  *)
(* the result's two values and adds the result's pc offset to the saved     *)
(* mepc (in register arithmetic); the saved mstatus, every other GPR and    *)
(* every CSR are unchanged and no trap is emulated, under any stvec.        *)
C12_SbiResultFrame ==
    [][(lastOp'.op = "apply" /\ lastOp'.t.variant = "SbiResult") =>
        /\ non_confidential_hart_state' =
              [non_confidential_hart_state EXCEPT
                  !.gprs["a0"] = lastOp'.t.v.a0,
                  !.gprs["a1"] = lastOp'.t.v.a1,
                  !.mepc = (non_confidential_hart_state.mepc + lastOp'.t.v.pc_offset)
                           % (2 ^ XLEN)]
        /\ CSR' = CSR
        /\ previous_mscratch' = previous_mscratch
        /\ ~panicked'
    ]_vars

\* an SbiResult with pc offset 4 was applied under a vectored stvec to a state
\* whose saved mepc was 8: a0 and a1 hold the result, mepc is 12, sepc is as before
C12_Witness ==
    /\ lastOp.op = "apply"
    /\ lastOp.t.variant = "SbiResult"
    /\ lastOp.t.v.pc_offset = 4
    /\ non_confidential_hart_state.mepc = 12
    /\ non_confidential_hart_state.gprs["a0"] = 0
    /\ non_confidential_hart_state.gprs["a1"] = 7
    /\ non_confidential_hart_state.gprs["a2"] = 1
    /\ CSR.sepc = 0
    /\ are_bits_enabled(CSR.stvec, STVEC_MODE_VECTORED)
    /\ ~panicked


(* C13, as stated: the apply of an OpensbiResult writes only a0 and a1 and  *)
(* advances the saved mepc by an offset (none, or the width of a compressed *)
(* or a full instruction) from its previous value; the saved mstatus and    *)
(* all other state are unchanged.                                           *)
C13_OpensbiResultAdvancesMepc ==
    [][(lastOp'.op = "apply" /\ lastOp'.t.variant = "OpensbiResult") =>
        /\ \E offset \in {0, 2, 4} :
              non_confidential_hart_state' =
                  [non_confidential_hart_state EXCEPT
                      !.gprs["a0"] = lastOp'.t.v.trap_regs.a0,
                      !.gprs["a1"] = lastOp'.t.v.trap_regs.a1,
                      !.mepc = (non_confidential_hart_state.mepc + offset) % (2 ^ XLEN)]
        /\ CSR' = CSR
        /\ previous_mscratch' = previous_mscratch
        /\ ~panicked'
    ]_vars

(* C13, as the code has it: the apply of an OpensbiResult writes a0 and a1  *)
(* and replaces the saved mstatus and the saved mepc with the values the    *)
(* result's trap registers carry, whatever they were before; every other    *)
(* GPR and every CSR are unchanged and no trap is emulated.                 *)
C13_OpensbiResultReplaces ==
    [][(lastOp'.op = "apply" /\ lastOp'.t.variant = "OpensbiResult") =>
        /\ non_confidential_hart_state' =
              [non_confidential_hart_state EXCEPT
                  !.gprs["a0"] = lastOp'.t.v.trap_regs.a0,
                  !.gprs["a1"] = lastOp'.t.v.trap_regs.a1,
                  !.mstatus = lastOp'.t.v.trap_regs.mstatus,
                  !.mepc = lastOp'.t.v.trap_regs.mepc]
        /\ CSR' = CSR
        /\ previous_mscratch' = previous_mscratch
        /\ ~panicked'
    ]_vars

\* an OpensbiResult was applied under a vectored stvec: the saved mstatus and mepc
\* are the result's, a0 and a1 too, a2 and sepc are as at the start
C13_Witness ==
    /\ lastOp.op = "apply"
    /\ lastOp.t.variant = "OpensbiResult"
    /\ non_confidential_hart_state.mstatus = {CSR_MSTATUS_MPIE, CSR_MSTATUS_MPP, CSR_MSTATUS_MPP + 1}
    /\ non_confidential_hart_state.mepc = 2 ^ XLEN - 4
    /\ non_confidential_hart_state.gprs["a0"] = 0
    /\ non_confidential_hart_state.gprs["a1"] = 9
    /\ non_confidential_hart_state.gprs["a2"] = 1
    /\ CSR.sepc = 0
    /\ are_bits_enabled(CSR.stvec, STVEC_MODE_VECTORED)
    /\ ~panicked


(* C14: the apply of an InterruptRequest with cause code c sets scause to   *)
(* c with the interrupt bit set (c OR the mask), writes no GPR, leaves      *)
(* stval, htval and vsscratch as they were, and then emulates the trap      *)
(* with hstatus.GVA cleared: when it returns, sepc is the old saved mepc,   *)
(* the saved mepc is stvec, and the state is apply_trap's of the state      *)
(* with the new scause.                                                     *)
C14_InterruptRequestWrites ==
    [][(lastOp'.op = "apply" /\ lastOp'.t.variant = "InterruptRequest") =>
        LET c == lastOp'.t.v.code
            entry == [Machine EXCEPT !.c.scause = BitOr(c, SCAUSE_INTERRUPT_MASK)]
        IN /\ CSR'.scause = BitOr(c, SCAUSE_INTERRUPT_MASK)
           /\ are_bits_enabled(CSR'.scause, SCAUSE_INTERRUPT_MASK)
           /\ CSR'.scause % SCAUSE_INTERRUPT_MASK = c % SCAUSE_INTERRUPT_MASK
           /\ non_confidential_hart_state'.gprs = non_confidential_hart_state.gprs
           /\ CSR'.stval = CSR.stval
           /\ CSR'.htval = CSR.htval
           /\ CSR'.vsscratch = CSR.vsscratch
           /\ [m |-> [s |-> non_confidential_hart_state', c |-> CSR'], panic |-> panicked'] =
                 apply_trap(entry, FALSE)
           /\ ~panicked' =>
                 /\ CSR_HSTATUS_GVA \notin CSR'.hstatus
                 /\ CSR'.sepc = non_confidential_hart_state.mepc
                 /\ non_confidential_hart_state'.mepc = CSR.stvec
    ]_vars

\* an InterruptRequest with code 9 was delivered to a hart whose hstatus had every
\* tracked bit set: scause is 9 with the interrupt bit, GVA is now clear while the
\* bit apply_trap never names is still set, no GPR and no fault CSR has moved
C14_Witness ==
    /\ Delivered
    /\ lastOp.t.variant = "InterruptRequest"
    /\ lastOp.t.v.code = 9
    /\ CSR.scause = 9 + SCAUSE_INTERRUPT_MASK
    /\ CSR.hstatus = HstatusBits \ {CSR_HSTATUS_GVA}
    /\ \A r \in GeneralPurposeRegister : non_confidential_hart_state.gprs[r] = 1
    /\ CSR.stval = 0 /\ CSR.htval = 0 /\ CSR.vsscratch = 2
    /\ CSR.sepc = 8
    /\ non_confidential_hart_state.mepc = CSR.stvec


(* C15: the apply of an EnabledInterrupts transformation sets the vsie CSR  *)
(* to the given value and changes nothing else - no trap emulation, no      *)
(* saved-state change, no abort, also under a vectored stvec; and after     *)
(* load_control_status_registers_from_main_memory(e) the vsie CSR is        *)
(* e.vsie, whatever vsie the saved state held.                              *)
C15_EnabledInterruptsFrame ==
    [][/\ (lastOp'.op = "apply" /\ lastOp'.t.variant = "EnabledInterrupts") =>
            /\ CSR' = [CSR EXCEPT !.vsie = lastOp'.t.v.vsie]
            /\ non_confidential_hart_state' = non_confidential_hart_state
            /\ previous_mscratch' = previous_mscratch
            /\ ~panicked'
       /\ lastOp'.op = "load_control_status_registers_from_main_memory" =>
            /\ CSR'.vsie = lastOp'.t.v.vsie
            /\ non_confidential_hart_state' = non_confidential_hart_state
            /\ previous_mscratch' = previous_mscratch
            /\ ~panicked'
    ]_vars

\* the full load was called with vsie 2 on a hart with a vectored stvec whose
\* saved state holds vsie 0: the vsie CSR is 2 and the hart has not aborted
C15_Witness ==
    /\ lastOp.op = "load_control_status_registers_from_main_memory"
    /\ lastOp.t.v.vsie = 2
    /\ non_confidential_hart_state.vsie = 0
    /\ CSR.vsie = 2
    /\ are_bits_enabled(CSR.stvec, STVEC_MODE_VECTORED)
    /\ ~panicked


\* the methods that build a request or a result from the hart
ExtractionMethods ==
    {"promote_to_confidential_vm_request", "hypercall_result", "guest_load_page_fault_result",
     "sbi_vm_request", "resume_request", "terminate_request", "share_page_result",
     "opensbi_request", "interrupts_to_inject"}

(* C16: every extraction method leaves the saved state, every CSR and       *)
(* previous_mscratch as they were; restore_original_gprs changes exactly a7 *)
(* (to vstval) and a6 (to vsepc); trap_reason does what                     *)
(* restore_original_gprs does when it returns an HS-mode ecall of the ACE   *)
(* extension and changes nothing for any other classification.              *)
C16_ExtractionReadsOnly ==
    [][/\ lastOp'.op \in ExtractionMethods =>
            /\ non_confidential_hart_state' = non_confidential_hart_state
            /\ CSR' = CSR
            /\ previous_mscratch' = previous_mscratch
            /\ ~panicked'
       /\ lastOp'.op = "restore_original_gprs" =>
            /\ non_confidential_hart_state' =
                  [non_confidential_hart_state EXCEPT
                      !.gprs["a7"] = CSR.vstval, !.gprs["a6"] = CSR.vsepc]
            /\ CSR' = CSR
            /\ previous_mscratch' = previous_mscratch
       /\ lastOp'.op = "trap_reason" =>
            /\ non_confidential_hart_state' =
                  IF ret'.kind = "HsEcall" /\ ret'.ext.name = "Ace"
                  THEN [non_confidential_hart_state EXCEPT
                           !.gprs["a7"] = CSR.vstval, !.gprs["a6"] = CSR.vsepc]
                  ELSE non_confidential_hart_state
            /\ CSR' = CSR
            /\ previous_mscratch' = previous_mscratch
    ]_vars

\* trap_reason returned an HS-mode ecall of another extension than ACE while a7
\* and a6 differed from vstval and vsepc: they still do
C16_Witness ==
    /\ lastOp.op = "trap_reason"
    /\ ret.kind = "HsEcall"
    /\ ret.ext.name = "Unknown"
    /\ non_confidential_hart_state.gprs["a7"] = 2
    /\ CSR.vstval = AceExtensionId
    /\ non_confidential_hart_state.gprs["a6"] = 1
    /\ CSR.vsepc = 9


(* C17: SharePageRequest::new never aborts; for a malformed guest address   *)
(* it returns a typed Error, and for a well-formed address it returns a     *)
(* request whose address accessor gives that address and whose page size    *)
(* is 4 KiB.                                                                *)
C17_MalformedAddressRejected ==
    lastOp.op = "SharePageRequest_new" =>
        /\ ~panicked
        /\ IF IsPageAligned(lastOp.t.v)
           THEN /\ ret.ok
                /\ confidential_vm_virtual_address(ret.value).usize = lastOp.t.v
                /\ page_size(ret.value) = Size4KiB
           ELSE ~ret.ok


(* C18: under a vectored stvec the apply of any trap-forwarding variant     *)
(* aborts, and at the abort scause, stval, htval, vsscratch and every       *)
(* saved GPR hold the values they had before the apply was called.          *)
C18_VectoredApplyAtomic ==
    [][(IsForwarding(lastOp') /\ are_bits_enabled(CSR.stvec, STVEC_MODE_VECTORED)) =>
        /\ panicked'
        /\ CSR'.scause = CSR.scause
        /\ CSR'.stval = CSR.stval
        /\ CSR'.htval = CSR.htval
        /\ CSR'.vsscratch = CSR.vsscratch
        /\ non_confidential_hart_state'.gprs = non_confidential_hart_state.gprs
    ]_vars


\* the two methods that copy the saved mepc and mstatus into the CSRs
LoadMethods ==
    {"load_volatile_control_status_registers_from_main_memory",
     "load_control_status_registers_from_main_memory"}

\* the bits trap emulation leaves in an mstatus value
EmulatedTrapPattern(mstatus) ==
    /\ CSR_MSTATUS_MPV \notin mstatus
    /\ CSR_MSTATUS_MPP \in mstatus
    /\ CSR_MSTATUS_MPIE \notin mstatus
    /\ CSR_MSTATUS_SIE \notin mstatus
    /\ CSR_MSTATUS_SPP \in mstatus

\* what C19 says of the volatile transfer itself: the store writes exactly the
\* saved mepc and mstatus, the load exactly the two CSRs; a load that directly
\* follows a delivered forwarding apply leaves stvec in the mepc CSR and the
\* emulated pattern in the mstatus CSR; a load that directly follows a store
\* leaves both CSRs as they were
VolatileTransfer ==
    /\ lastOp'.op = "store_volatile_control_status_registers_in_main_memory" =>
          /\ non_confidential_hart_state' =
                [non_confidential_hart_state EXCEPT !.mepc = CSR.mepc, !.mstatus = CSR.mstatus]
          /\ CSR' = CSR
          /\ previous_mscratch' = previous_mscratch
    /\ lastOp'.op = "load_volatile_control_status_registers_from_main_memory" =>
          /\ CSR' = [CSR EXCEPT !.mepc = non_confidential_hart_state.mepc,
                                !.mstatus = non_confidential_hart_state.mstatus]
          /\ non_confidential_hart_state' = non_confidential_hart_state
          /\ previous_mscratch' = previous_mscratch
    /\ (Delivered /\ lastOp'.op = "load_volatile_control_status_registers_from_main_memory") =>
          /\ CSR'.mepc = CSR.stvec
          /\ EmulatedTrapPattern(CSR'.mstatus)
    /\ (/\ lastOp.op = "store_volatile_control_status_registers_in_main_memory"
        /\ lastOp'.op = "load_volatile_control_status_registers_from_main_memory") =>
          /\ CSR'.mepc = CSR.mepc
          /\ CSR'.mstatus = CSR.mstatus

(* C19, as stated: trap emulation writes the saved mstatus and mepc and not *)
(* the CSRs - the mepc CSR and the mstatus CSR change only in the volatile  *)
(* load or the full load - and the volatile transfer behaves as described.  *)
C19_CsrsChangeOnlyInLoads ==
    [][/\ IsForwarding(lastOp') => (CSR'.mepc = CSR.mepc /\ CSR'.mstatus = CSR.mstatus)
       /\ (CSR'.mepc # CSR.mepc \/ CSR'.mstatus # CSR.mstatus) => lastOp'.op \in LoadMethods
       /\ VolatileTransfer
    ]_vars

(* C19, as the code has it: the mepc CSR changes only in the volatile load  *)
(* or the full load; the mstatus CSR changes only there and in a delivered  *)
(* forwarding apply, whose write of sstatus.SPP sets bit SPP of the mstatus *)
(* CSR and no other bit of it; the volatile transfer behaves as described.  *)
C19_CsrsChangeInLoadsAndSstatusWrite ==
    [][/\ IsForwarding(lastOp') =>
            /\ CSR'.mepc = CSR.mepc
            /\ CSR'.mstatus = IF panicked' THEN CSR.mstatus
                              ELSE CSR.mstatus \cup {CSR_SSTATUS_SPP}
       /\ CSR'.mepc # CSR.mepc => lastOp'.op \in LoadMethods
       /\ CSR'.mstatus # CSR.mstatus => (lastOp'.op \in LoadMethods \/ IsForwarding(lastOp'))
       /\ VolatileTransfer
    ]_vars

\* the volatile load was called after a forwarding apply delivered a trap from a
\* state with every tracked status bit set and the saved mepc 8: the mepc CSR is
\* stvec and the mstatus CSR holds the emulated pattern
C19_Witness ==
    /\ lastOp.op = "load_volatile_control_status_registers_from_main_memory"
    /\ CSR.sepc = 8
    /\ CSR.mepc = 16
    /\ CSR.stvec = 16
    /\ CSR.mstatus = {3, CSR_MSTATUS_SPP, CSR_MSTATUS_MPP, CSR_MSTATUS_MPP + 1}
    /\ non_confidential_hart_state.mstatus = CSR.mstatus


\* the scratch values the hart holds: the one in the mscratch CSR and the one
\* kept in previous_mscratch
ScratchPair(c, previous) == {c.mscratch, previous}

(* C20: swap_mscratch exchanges the mscratch CSR with previous_mscratch and *)
(* touches nothing else; swapping twice gives back the state swapped from;  *)
(* and whatever is called, the pair {mscratch CSR, previous_mscratch} holds *)
(* the two values it held after init (0 and the monitor's 40).              *)
C20_ScratchSwap ==
    [][/\ lastOp'.op = "swap_mscratch" =>
            /\ CSR' = [CSR EXCEPT !.mscratch = previous_mscratch]
            /\ previous_mscratch' = CSR.mscratch
            /\ non_confidential_hart_state' = non_confidential_hart_state
            /\ ~panicked'
            /\ LET again == swap_mscratch([s |-> non_confidential_hart_state', c |-> CSR'],
                                          previous_mscratch')
               IN /\ again.m = Machine
                  /\ again.previous_mscratch = previous_mscratch
       /\ (lastOp.op = "swap_mscratch" /\ lastOp'.op = "swap_mscratch") =>
            /\ CSR'.mscratch = previous_mscratch
            /\ previous_mscratch' = CSR.mscratch
       /\ ScratchPair(CSR, previous_mscratch) = {0, 40}
       /\ ScratchPair(CSR', previous_mscratch') = {0, 40}
    ]_vars

\* swap_mscratch was called a second time: the CSR holds the monitor's value and
\* the field the firmware's again, as after init
C20_Witness ==
    /\ lastOp.op = "swap_mscratch"
    /\ budget <= MaxSteps - 2
    /\ CSR.mscratch = 40
    /\ previous_mscratch = 0

====
